---- MODULE Spec2Model ----
(***************************************************************************)
(* A model of the footstep planner driver (FootstepPlanner.cpp) and of the *)
(* discrete planning state (PlanningState.cpp).                            *)
(*                                                                         *)
(* World coordinates are integers; a map cell is `res' world units wide.   *)
(* Angles are counted in quarter turns (0..3), so that the sines and       *)
(* cosines of getFootPosition are exact.                                   *)
(***************************************************************************)
EXTENDS Integers, Sequences, FiniteSets, TLC

VARIABLES
    ivPlannerType,        \* configured planner name
    ivForwardSearch,      \* configured search direction
    ivMapPtr,             \* the planner's map (NoMap: null pointer)
    ivStartPoseSetUp,
    ivGoalPoseSetUp,
    ivStartFootLeft,
    ivStartFootRight,
    ivGoalFootLeft,
    ivGoalFootRight,
    ivPlanExists,
    ivPath,               \* sequence of State
    ivPathCost,           \* in units of 1/cvMmScale
    envMap,               \* the environment's map reference
    envTable,             \* the environment's registered states, id = index - 1
    plannerKind,          \* concrete type of the search algorithm instance
    plannerSearched,      \* replan() has been called on this instance
    stale,                \* the map changed since the search state was built
    last,                 \* what the last call did
    profile,              \* which inputs the planner's callers offer
    process,              \* the parameters given and how construction ended
    inflight,             \* the requests handed to the planner and not finished
    ps1, ps2,             \* two PlanningState objects
    psCmp,                \* the result of comparing them, once compared
    psMade                \* which constructor produced each of them

plannerVars == <<ivPlannerType, ivForwardSearch, ivMapPtr, ivStartPoseSetUp,
                 ivGoalPoseSetUp, ivStartFootLeft, ivStartFootRight,
                 ivGoalFootLeft, ivGoalFootRight, ivPlanExists, ivPath,
                 ivPathCost, envMap, envTable, plannerKind, plannerSearched,
                 stale, last, profile, process, inflight>>

psVars == <<ps1, ps2, psCmp, psMade>>

vars == <<plannerVars, psVars>>

-----------------------------------------------------------------------------
(* Bounds of the model *)

MaxSolutionLen == 2
MaxPathCost == 1
MaxOccupied == 1

(* Configuration values (ROS parameters), scaled to the integer world *)

ivChangedCellsLimit == 2
ivNumAngleBins == 2
ivCellSize == 2
ivFootsizeX == 4
ivFootsizeY == 2
ivOriginFootShiftX == 0
ivOriginFootShiftY == 0
ivFootSeparation == 2

AngleUnitsPerTurn == 4

PlannerTypes == {"ARAPlanner", "ADPlanner", "RSTARPlanner"}

-----------------------------------------------------------------------------
(* Continuous State and the maps *)

NoLegState == [x |-> 0, y |-> 0, theta |-> 0, leg |-> "NOLEG"]

NoMap == [res |-> 0, rows |-> 0, cols |-> 0, occ |-> {}]

(* no pose argument *)
NoPose == [x |-> 0, y |-> 0, theta |-> -1]

Resolutions == {2, 4}
Dims == {<<2, 2>>, <<1, 2>>}

CellsOf(rows, cols) == (0 .. rows - 1) \X (0 .. cols - 1)

Maps ==
    UNION { { [res |-> r, rows |-> d[1], cols |-> d[2], occ |-> o] :
                o \in { s \in SUBSET CellsOf(d[1], d[2]) :
                          Cardinality(s) <= MaxOccupied } } :
            r \in Resolutions, d \in Dims }

(* robot poses offered to setStart / setGoal; the last one stands *)
(* half outside the maps offered                                  *)
Poses == { [x |-> 2, y |-> 2, theta |-> 0],
           [x |-> 2, y |-> 2, theta |-> 1],
           [x |-> 2, y |-> 4, theta |-> 0] }

Sin(q) == CASE q % 4 = 0 -> 0 [] q % 4 = 1 -> 1 [] q % 4 = 2 -> 0 [] OTHER -> -1
Cos(q) == CASE q % 4 = 0 -> 1 [] q % 4 = 1 -> 0 [] q % 4 = 2 -> -1 [] OTHER -> 0

getFootPosition(robot, side) ==
    LET shift_x == (0 - Sin(robot.theta)) * (ivFootSeparation \div 2)
        shift_y == Cos(robot.theta) * (ivFootSeparation \div 2)
        sign == IF side = "LEFT" THEN 1 ELSE -1
    IN  [x |-> robot.x + sign * shift_x,
         y |-> robot.y + sign * shift_y,
         theta |-> robot.theta,
         leg |-> side]

(* GridMap2D: world <-> map coordinates, occupancy of a cell; a cell *)
(* outside the map counts as occupied                               *)
worldToMap(m, w) == w \div m.res
mapToWorld(m, c) == ((2 * c + 1) * m.res) \div 2
inMap(m, mx, my) == mx >= 0 /\ mx < m.rows /\ my >= 0 /\ my < m.cols
isOccupiedAtCell(m, mx, my) ==
    IF inMap(m, mx, my) THEN <<mx, my>> \in m.occ ELSE TRUE

(* the cells under the footprint rectangle of the foot standing at s: the *)
(* rectangle of the foot's size, moved by the origin shift (mirrored for  *)
(* the left leg) and turned by s.theta                                    *)
footprintCells(m, s) ==
    LET sign == IF s.leg = "LEFT" THEN -1 ELSE 1
        cx == s.x + Cos(s.theta) * ivOriginFootShiftX
                  - Sin(s.theta) * sign * ivOriginFootShiftY
        cy == s.y + Sin(s.theta) * ivOriginFootShiftX
                  + Cos(s.theta) * sign * ivOriginFootShiftY
        hx == IF s.theta % 2 = 0 THEN ivFootsizeX \div 2
              ELSE ivFootsizeY \div 2
        hy == IF s.theta % 2 = 0 THEN ivFootsizeY \div 2
              ELSE ivFootsizeX \div 2
    IN  { <<worldToMap(m, wx), worldToMap(m, wy)>> :
            wx \in (cx - hx) .. (cx + hx - 1),
            wy \in (cy - hy) .. (cy + hy - 1) }

(* FootstepPlannerEnvironment::occupied on the environment's map `m'; without *)
(* a map the call dereferences a null pointer and `undef' stands for whatever *)
(* it then returns                                                            *)
occupied(m, s, undef) ==
    IF m = NoMap THEN undef
    ELSE \E c \in footprintCells(m, s) : isOccupiedAtCell(m, c[1], c[2])

-----------------------------------------------------------------------------
(* FootstepPlannerEnvironment: the table of registered states *)

Range(seq) == { seq[i] : i \in DOMAIN seq }

Register(table, s) == IF s \in Range(table) THEN table ELSE Append(table, s)

setUp(table, start_left, start_right, goal_left, goal_right) ==
    Register(Register(Register(Register(table, start_left), start_right),
                      goal_left), goal_right)

getStateOk(table, id) == id >= 0 /\ id < Len(table)
getState(table, id) == table[id + 1]

envReset(table) == << >>

(* helper.h: rounding to the nearest integer, halves away from zero *)
Round(num, den) ==
    IF num >= 0 THEN (2 * num + den) \div (2 * den)
    ELSE -((2 * (-num) + den) \div (2 * den))

(* helper.h: state_2_cell *)
state_2_cell(value, cell_size) == Round(value, cell_size)

(* helper.h: cell_2_state *)
cell_2_state(value, cell_size) == value * cell_size

(* the ids of the registered states standing in the cell of one of the *)
(* given positions                                                     *)
idsOfGridCells(table, states) ==
    { i - 1 : i \in { j \in DOMAIN table :
                        \E k \in DOMAIN states :
                            /\ state_2_cell(states[k].x, ivCellSize)
                                   = state_2_cell(table[j].x, ivCellSize)
                            /\ state_2_cell(states[k].y, ivCellSize)
                                   = state_2_cell(table[j].y, ivCellSize) } }

-----------------------------------------------------------------------------
(* FootstepPlanner::setupPlanner: the instance created for a planner type *)

setupPlanner(type) ==
    CASE type = "ARAPlanner" -> "ARAPlanner"
      [] type = "ADPlanner" -> "ADPlanner"
      [] type = "RSTARPlanner" -> "RSTARPlanner"
      [] OTHER -> "none"

-----------------------------------------------------------------------------
(* FootstepPlanner::extractSolution *)

RECURSIVE extractFrom(_, _, _, _)
extractFrom(table, state_ids, i, path) ==
    IF i > Len(state_ids) THEN [ok |-> TRUE, path |-> path]
    ELSE IF ~getStateOk(table, state_ids[i])
         THEN [ok |-> FALSE, path |-> << >>]
         ELSE extractFrom(table, state_ids, i + 1,
                          Append(path, getState(table, state_ids[i])))

(* extractSolution reporting success whatever the ids *)
extractSolutionAlwaysTrue(table, state_ids) ==
    [extractFrom(table, state_ids, 1, << >>) EXCEPT !.ok = TRUE]

(* extractSolution leaving the poses it resolved in the path when an id *)
(* fails                                                                *)
extractSolutionKeepingPartial(table, state_ids) ==
    LET ex == extractFrom(table, state_ids, 1, << >>)
        bad == CHOOSE i \in DOMAIN state_ids :
                   /\ ~getStateOk(table, state_ids[i])
                   /\ \A j \in 1 .. i - 1 : getStateOk(table, state_ids[j])
    IN  IF ex.ok THEN ex
        ELSE [ok |-> FALSE,
              path |-> [i \in 1 .. bad - 1 |-> getState(table, state_ids[i])]]

extractSolution(table, state_ids) == extractFrom(table, state_ids, 1, << >>)

-----------------------------------------------------------------------------
(* What the search algorithm (SBPL) may answer in one run() *)

(* The footsteps the environment registers for start and goal *)
RegisteredFeet == {"start_left", "start_right", "goal_left", "goal_right"}

(* The solutions a search may return when the environment knows the ids *)
(* 0 .. n - 1: sequences of known ids, or of known ids ending in the    *)
(* unknown id n (extractSolution reads nothing after an id it cannot    *)
(* resolve)                                                             *)
Solutions ==
    [n \in 0 .. Cardinality(RegisteredFeet) |->
        { sol \in UNION { [1 .. k -> 0 .. n] : k \in 0 .. MaxSolutionLen } :
            \A i \in 1 .. Len(sol) - 1 : sol[i] < n }]

SearchOutcomes ==
    [n \in 0 .. Cardinality(RegisteredFeet) |->
        { o \in [set_start : {0, 1}, set_goal : {0, 1}, ret : {0, 1},
                 sol : Solutions[n], path_cost : 0 .. MaxPathCost] :
            /\ (o.set_start = 0 \/ o.set_goal = 0) =>
                   (o.ret = 0 /\ o.path_cost = 0)
            /\ o.set_start = 0 => o.set_goal = 1
            /\ o.ret = 0 => o.sol = << >> }]

(* The planner object and the record of the current call, as one record.     *)
(* Every member function below maps such a record to the record after it.    *)
Cur(op) ==
    [map |-> ivMapPtr, startSet |-> ivStartPoseSetUp,
     goalSet |-> ivGoalPoseSetUp,
     sl |-> ivStartFootLeft, sr |-> ivStartFootRight,
     gl |-> ivGoalFootLeft, gr |-> ivGoalFootRight,
     planExists |-> ivPlanExists, path |-> ivPath, cost |-> ivPathCost,
     envMap |-> envMap, table |-> envTable,
     kind |-> plannerKind, searched |-> plannerSearched, stale |-> stale,
     \* the call
     op |-> op, start_arg |-> NoPose, goal_arg |-> NoPose,
     ret |-> "void", run |-> "none", runs |-> 0, searches |-> 0,
     ready |-> TRUE, prior |-> FALSE, path_cost |-> -1,
     ranStale |-> FALSE, update |-> "none", resets |-> 0, setups |-> 0,
     notified |-> << >>, ncc |-> 0, changed |-> << >>, assertOk |-> TRUE,
     \* the calls made on the environment and on the search instance, in
     \* order, what set_start and set_goal returned, and the ids given to
     \* extractSolution
     trace |-> << >>, set |-> << >>, sol |-> << >>,
     \* the map given to setMap
     map_arg |-> NoMap]

Commit(c) ==
    /\ ivMapPtr' = c.map
    /\ ivStartPoseSetUp' = c.startSet
    /\ ivGoalPoseSetUp' = c.goalSet
    /\ ivStartFootLeft' = c.sl
    /\ ivStartFootRight' = c.sr
    /\ ivGoalFootLeft' = c.gl
    /\ ivGoalFootRight' = c.gr
    /\ ivPlanExists' = c.planExists
    /\ ivPath' = c.path
    /\ ivPathCost' = c.cost
    /\ envMap' = c.envMap
    /\ envTable' = c.table
    /\ plannerKind' = c.kind
    /\ plannerSearched' = c.searched
    /\ stale' = c.stale
    /\ last' = [op |-> c.op, start_arg |-> c.start_arg,
                goal_arg |-> c.goal_arg,
                ret |-> c.ret, run |-> c.run, runs |-> c.runs,
                searches |-> c.searches, ready |-> c.ready,
                prior |-> c.prior, path_cost |-> c.path_cost,
                ranStale |-> c.ranStale,
                update |-> c.update, resets |-> c.resets,
                setups |-> c.setups, notified |-> c.notified,
                ncc |-> c.ncc, changed |-> c.changed,
                assertOk |-> c.assertOk, trace |-> c.trace, set |-> c.set,
                sol |-> c.sol, map_arg |-> c.map_arg]
    /\ inflight' = inflight \ {c}
    /\ UNCHANGED <<ivPlannerType, ivForwardSearch, profile, process, psVars>>

Bool(b) == IF b THEN "true" ELSE "false"

(* run() going on to the search although set_goal returned 0 *)
runIgnoringGoal(c, o) ==
    LET table1 == setUp(c.table, c.sl, c.sr, c.gl, c.gr)
        q == [c EXCEPT !.table = table1, !.runs = @ + 1,
                       !.ready = (c.map # NoMap /\ c.startSet /\ c.goalSet),
                       !.prior = c.planExists,
                       !.trace = @ \o <<"setUp", "set_start">>,
                       !.set = <<o.set_start>>]
    IN  IF o.set_start = 0
        THEN [q EXCEPT !.run = "startFail", !.ret = "false"]
        ELSE LET r == [q EXCEPT !.searched = TRUE,
                                !.searches = @ + 1,
                                !.ranStale = c.stale,
                                !.path_cost = o.path_cost,
                                !.cost = o.path_cost,
                                !.set = Append(@, o.set_goal),
                                !.trace = @ \o <<"set_goal",
                                                 "set_initialsolution_eps",
                                                 "set_search_mode",
                                                 "replan">>]
             IN  IF o.ret # 0 /\ Len(o.sol) > 0
                 THEN LET ex == extractSolution(table1, o.sol)
                      IN  [r EXCEPT !.planExists = ex.ok,
                                    !.path = ex.path,
                                    !.run = IF ex.ok THEN "ok"
                                            ELSE "extractFail",
                                    !.ret = Bool(ex.ok),
                                    !.sol = o.sol,
                                    !.trace = Append(@, "extractSolution")]
                 ELSE [r EXCEPT !.run = "noSolution", !.ret = "false"]

(* FootstepPlanner::run with the search's answer `o' *)
run(c, o) ==
    LET table1 == setUp(c.table, c.sl, c.sr, c.gl, c.gr)
        q == [c EXCEPT !.table = table1, !.runs = @ + 1,
                       !.ready = (c.map # NoMap /\ c.startSet /\ c.goalSet),
                       !.prior = c.planExists,
                       !.trace = @ \o <<"setUp", "set_start">>,
                       !.set = <<o.set_start>>]
    IN  IF o.set_start = 0
        THEN [q EXCEPT !.run = "startFail", !.ret = "false"]
        ELSE IF o.set_goal = 0
        THEN [q EXCEPT !.run = "goalFail", !.ret = "false",
                       !.trace = Append(@, "set_goal"),
                       !.set = Append(@, o.set_goal)]
        ELSE LET r == [q EXCEPT !.searched = TRUE,
                                !.searches = @ + 1,
                                !.ranStale = c.stale,
                                !.path_cost = o.path_cost,
                                !.cost = o.path_cost,
                                !.set = Append(@, o.set_goal),
                                !.trace = @ \o <<"set_goal",
                                                 "set_initialsolution_eps",
                                                 "set_search_mode",
                                                 "replan">>]
             IN  IF o.ret # 0 /\ Len(o.sol) > 0
                 THEN LET ex == extractSolution(table1, o.sol)
                      IN  [r EXCEPT !.planExists = ex.ok,
                                    !.path = ex.path,
                                    !.run = IF ex.ok THEN "ok"
                                            ELSE "extractFail",
                                    !.ret = Bool(ex.ok),
                                    !.sol = o.sol,
                                    !.trace = Append(@, "extractSolution")]
                 ELSE [r EXCEPT !.run = "noSolution", !.ret = "false"]

(* ivPlannerEnvironmentPtr->reset(); setupPlanner(); *)
resetPlanner(c) ==
    [c EXCEPT !.table = envReset(c.table), !.resets = @ + 1,
              !.kind = setupPlanner(ivPlannerType), !.setups = @ + 1,
              !.searched = FALSE, !.stale = FALSE,
              !.trace = @ \o <<"reset", "setupPlanner">>]

(* plan() without the test of the start and goal flags *)
planUnchecked(c, o) ==
    IF c.map = NoMap THEN [c EXCEPT !.ret = "false"]
    ELSE run(resetPlanner(c), o)

(* plan() going to run() on the environment and search instance it finds *)
planWithoutReset(c, o) ==
    IF c.map = NoMap THEN [c EXCEPT !.ret = "false"]
    ELSE IF ~c.goalSet \/ ~c.startSet THEN [c EXCEPT !.ret = "false"]
    ELSE run(c, o)

(* FootstepPlanner::plan() *)
plan(c, o) ==
    IF c.map = NoMap THEN [c EXCEPT !.ret = "false"]
    ELSE IF ~c.goalSet \/ ~c.startSet THEN [c EXCEPT !.ret = "false"]
    ELSE run(resetPlanner(c), o)

(* replan() running the search a second time when the first run fails *)
replanRetrying(c, o) ==
    IF c.map = NoMap THEN [c EXCEPT !.ret = "false"]
    ELSE IF ~c.goalSet \/ ~c.startSet THEN [c EXCEPT !.ret = "false"]
    ELSE LET r == run(c, o)
         IN  IF r.ret = "true" THEN r ELSE run(r, o)

(* FootstepPlanner::replan() *)
replan(c, o) ==
    IF c.map = NoMap THEN [c EXCEPT !.ret = "false"]
    ELSE IF ~c.goalSet \/ ~c.startSet THEN [c EXCEPT !.ret = "false"]
    ELSE run(c, o)

(* setGoal withdrawing the goal when the new pose is rejected *)
setGoalClearingFlag(c0, goal, u) ==
    LET c == [c0 EXCEPT !.goal_arg = goal]
    IN
    IF c.map = NoMap THEN [c EXCEPT !.ret = "false"]
    ELSE LET leftFoot == getFootPosition(goal, "LEFT")
             rightFoot == getFootPosition(goal, "RIGHT")
         IN  IF occupied(c.envMap, leftFoot, u[1])
                \/ occupied(c.envMap, rightFoot, u[2])
             THEN [c EXCEPT !.goalSet = FALSE, !.ret = "false"]
             ELSE [c EXCEPT !.gl = leftFoot, !.gr = rightFoot,
                            !.goalSet = TRUE, !.ret = "true"]

(* setGoal testing the left foot alone *)
setGoalLeftFootOnly(c0, goal, u) ==
    LET c == [c0 EXCEPT !.goal_arg = goal]
    IN
    IF c.map = NoMap THEN [c EXCEPT !.ret = "false"]
    ELSE LET leftFoot == getFootPosition(goal, "LEFT")
             rightFoot == getFootPosition(goal, "RIGHT")
         IN  IF occupied(c.envMap, leftFoot, u[1])
             THEN [c EXCEPT !.ret = "false"]
             ELSE [c EXCEPT !.gl = leftFoot, !.gr = rightFoot,
                            !.goalSet = TRUE, !.ret = "true"]

(* FootstepPlanner::setGoal(x, y, theta) *)
setGoal(c0, goal, u) ==
    LET c == [c0 EXCEPT !.goal_arg = goal]
    IN
    IF c.map = NoMap THEN [c EXCEPT !.ret = "false"]
    ELSE LET leftFoot == getFootPosition(goal, "LEFT")
             rightFoot == getFootPosition(goal, "RIGHT")
         IN  IF occupied(c.envMap, leftFoot, u[1])
                \/ occupied(c.envMap, rightFoot, u[2])
             THEN [c EXCEPT !.ret = "false"]
             ELSE [c EXCEPT !.gl = leftFoot, !.gr = rightFoot,
                            !.goalSet = TRUE, !.ret = "true"]

(* FootstepPlanner::setStart(const State& right_foot, const State& left_foot) *)
setStartFeet(c, right_foot, left_foot, u) ==
    IF occupied(c.envMap, left_foot, u[1])
       \/ occupied(c.envMap, right_foot, u[2])
    THEN [c EXCEPT !.ret = "false"]
    ELSE [c EXCEPT !.sl = left_foot, !.sr = right_foot,
                   !.startSet = TRUE, !.ret = "true"]

(* FootstepPlanner::setStart(x, y, theta) *)
setStart(c0, start, u) ==
    LET c == [c0 EXCEPT !.start_arg = start]
    IN
    IF c.map = NoMap THEN [c EXCEPT !.ret = "false"]
    ELSE setStartFeet(c, getFootPosition(start, "RIGHT"),
                      getFootPosition(start, "LEFT"), u)

(* plan(start, goal) taking back the start when the goal is rejected *)
planPosesAtomic(c, start, goal, u, o) ==
    LET c1 == setStart(c, start, u)
        c2 == setGoal(c1, goal, u)
    IN  IF c1.ret # "true" THEN [c1 EXCEPT !.ret = "false"]
        ELSE IF c2.ret # "true"
        THEN [c EXCEPT !.start_arg = start, !.goal_arg = goal,
                       !.ret = "false"]
        ELSE plan(c2, o)

(* FootstepPlanner::plan(start_x, start_y, start_theta, goal_x, ...) *)
planPoses(c, start, goal, u, o) ==
    LET c1 == setStart(c, start, u)
        c2 == setGoal(c1, goal, u)
    IN  IF c1.ret # "true" THEN [c1 EXCEPT !.ret = "false"]
        ELSE IF c2.ret # "true" THEN [c2 EXCEPT !.ret = "false"]
        ELSE plan(c2, o)

(* FootstepPlanner::goalPoseCallback *)
goalPoseCallback(c, goal_pose, u, o) ==
    LET c1 == setGoal(c, goal_pose, u)
    IN  IF c1.ret = "true" /\ c1.startSet
        THEN [run([c1 EXCEPT !.assertOk = (c1.map # NoMap)], o)
                 EXCEPT !.ret = "void"]
        ELSE [c1 EXCEPT !.ret = "void"]

(* startPoseCallback without the test of the goal flag *)
startPoseCallbackUnchecked(c, start_pose, u, o) ==
    LET c1 == setStart(c, start_pose, u)
    IN  IF c1.ret = "true"
        THEN [run([c1 EXCEPT !.assertOk = (c1.map # NoMap)], o)
                 EXCEPT !.ret = "void"]
        ELSE [c1 EXCEPT !.ret = "void"]

(* FootstepPlanner::startPoseCallback *)
startPoseCallback(c, start_pose, u, o) ==
    LET c1 == setStart(c, start_pose, u)
    IN  IF c1.ret = "true" /\ c1.goalSet
        THEN [run([c1 EXCEPT !.assertOk = (c1.map # NoMap)], o)
                 EXCEPT !.ret = "void"]
        ELSE [c1 EXCEPT !.ret = "void"]

-----------------------------------------------------------------------------
(* FootstepPlanner::updateEnvironment: change detection *)

(* cv::bitwise_xor of the two binary maps: the cells whose occupancy flipped *)
changedRaw(old_map, new_map) ==
    (old_map.occ \ new_map.occ) \cup (new_map.occ \ old_map.occ)

Abs(n) == IF n < 0 THEN 0 - n ELSE n

(* the square of max_foot_radius * resolution *)
maxFootRadiusSq ==
    (Abs(ivOriginFootShiftX) + ivFootsizeX \div 2)
        * (Abs(ivOriginFootShiftX) + ivFootsizeX \div 2)
    + (Abs(ivOriginFootShiftY) + ivFootsizeY \div 2)
        * (Abs(ivOriginFootShiftY) + ivFootsizeY \div 2)

DistSq(a, b) ==
    (a[1] - b[1]) * (a[1] - b[1]) + (a[2] - b[2]) * (a[2] - b[2])

(* distanceTransform and threshold: the cells within max_foot_radius of a *)
(* changed cell                                                           *)
inflate(m, raw) ==
    { c \in CellsOf(m.rows, m.cols) :
        \E d \in raw : DistSq(c, d) * m.res * m.res <= maxFootRadiusSq }

(* the indices the loop reads outside the mask *)
OutOfMask(m) ==
    { c \in (0 .. m.cols - 1) \X (0 .. m.rows - 1) :
        ~(c[1] < m.rows /\ c[2] < m.cols) }

(* changed_cells.at<uchar>(x, y) == 255: first index the row, second the *)
(* column; a read outside the mask yields whatever oob says              *)
maskAt(m, mask, oob, x, y) ==
    IF x < m.rows /\ y < m.cols THEN <<x, y>> \in mask ELSE oob[<<x, y>>]

angle_cell_2_state(theta, num_angle_bins) ==
    (theta * AngleUnitsPerTurn) \div num_angle_bins

statesOfCell(m, x, y) ==
    [t \in 1 .. ivNumAngleBins |->
        [x |-> mapToWorld(m, x), y |-> mapToWorld(m, y),
         theta |-> angle_cell_2_state(t - 1, ivNumAngleBins),
         leg |-> "NOLEG"]]

(* the loop over the mask, from its k-th iteration on: y outer over the *)
(* rows, x inner over the columns                                       *)
RECURSIVE changedLoop(_, _, _, _, _)
changedLoop(m, mask, oob, k, acc) ==
    IF k >= m.rows * m.cols THEN acc
    ELSE LET y == k \div m.cols
             x == k % m.cols
         IN  IF maskAt(m, mask, oob, x, y)
             THEN changedLoop(m, mask, oob, k + 1,
                      [num_changed_cells |-> acc.num_changed_cells + 1,
                       changed_states |->
                           acc.changed_states \o statesOfCell(m, x, y)])
             ELSE changedLoop(m, mask, oob, k + 1, acc)

detectChanges(old_map, new_map, oob) ==
    changedLoop(new_map, inflate(new_map, changedRaw(old_map, new_map)), oob,
                0, [num_changed_cells |-> 0, changed_states |-> << >>])

(* the compatibility test without the test of the planner type *)
compatibleAnyPlanner(old_map, new_map) ==
    /\ new_map.res = old_map.res
    /\ new_map.rows = old_map.rows
    /\ new_map.cols = old_map.cols

(* the compatibility test without the comparison of the resolutions *)
compatibleIgnoringResolution(old_map, new_map) ==
    /\ ivPlannerType = "ADPlanner"
    /\ new_map.rows = old_map.rows
    /\ new_map.cols = old_map.cols

compatible(old_map, new_map) ==
    /\ ivPlannerType = "ADPlanner"
    /\ new_map.res = old_map.res
    /\ new_map.rows = old_map.rows
    /\ new_map.cols = old_map.cols

(* the limit test with < for <= *)
withinLimitStrict(num_changed_cells) == num_changed_cells < ivChangedCellsLimit

withinLimit(num_changed_cells) == num_changed_cells <= ivChangedCellsLimit

(* the INCREMENTAL branch asking for the successors on a backward search *)
(* and for the predecessors on a forward one                             *)
notifyCostsChangedSwapped(c, changed_states) ==
    [c EXCEPT !.update = "INCREMENTAL",
              !.stale = FALSE,
              !.trace = Append(@, "costs_changed"),
              !.notified = Append(@,
                  [via |-> IF ivForwardSearch THEN "getPredsOfGridCells"
                           ELSE "getSuccsOfGridCells",
                   ids |-> idsOfGridCells(c.table, changed_states),
                   on |-> c.kind])]

(* the INCREMENTAL branch: costs_changed on the ids of the changed states *)
notifyCostsChanged(c, changed_states) ==
    [c EXCEPT !.update = "INCREMENTAL",
              !.stale = FALSE,
              !.trace = Append(@, "costs_changed"),
              !.notified = Append(@,
                  [via |-> IF ivForwardSearch THEN "getSuccsOfGridCells"
                           ELSE "getPredsOfGridCells",
                   ids |-> idsOfGridCells(c.table, changed_states),
                   on |-> c.kind])]

updateEnvironment(c, old_map, oob) ==
    IF compatible(old_map, c.map)
    THEN LET d == detectChanges(old_map, c.map, oob)
             c1 == [c EXCEPT !.ncc = d.num_changed_cells,
                             !.changed = d.changed_states]
         IN  IF d.num_changed_cells = 0
             THEN [c1 EXCEPT !.update = "NOOP"]
             ELSE IF withinLimit(d.num_changed_cells)
             THEN notifyCostsChanged(c1, d.changed_states)
             ELSE [resetPlanner(c1) EXCEPT !.update = "RESET"]
    ELSE [resetPlanner(c) EXCEPT !.update = "RESET"]

(* setMap updating and planning whenever start and goal are set, plan or *)
(* no plan                                                              *)
setMapWhenPosed(c, grid_map, oob, o) ==
    LET map_exists == c.map # NoMap
        old_map == c.map
        c1 == [c EXCEPT !.map = grid_map, !.envMap = grid_map,
                        !.map_arg = grid_map,
                        !.stale = @ \/ (map_exists /\ old_map # grid_map
                                        /\ c.searched)]
    IN  IF map_exists /\ c.startSet /\ c.goalSet
        THEN [run(updateEnvironment(c1, old_map, oob), o)
                 EXCEPT !.ret = "void"]
        ELSE c1

(* FootstepPlanner::setMap *)
setMap(c, grid_map, oob, o) ==
    LET map_exists == c.map # NoMap
        old_map == c.map
        c1 == [c EXCEPT !.map = grid_map, !.envMap = grid_map,
                        !.map_arg = grid_map,
                        !.stale = @ \/ (map_exists /\ old_map # grid_map
                                        /\ c.searched)]
    IN  IF map_exists /\ c.planExists
        THEN [run(updateEnvironment(c1, old_map, oob), o)
                 EXCEPT !.ret = "void"]
        ELSE c1

-----------------------------------------------------------------------------
(* The inputs offered to the planner.  Each profile is rich in one kind of *)
(* input and small in the others:                                         *)
(*   poses   two robot poses on a free and on a partly occupied map       *)
(*   search  every answer of the search algorithm, one pose, one map      *)
(*   maps    every map and every configuration, one pose                  *)

Profiles == {"poses", "search", "maps"}

PoseA == [x |-> 2, y |-> 2, theta |-> 0]

SmallMaps ==
    { m \in Maps : m.res = 2 /\ m.rows = 2 /\ m.cols = 2
                   /\ m.occ \subseteq {<<0, 0>>} }

FreeMaps == { m \in SmallMaps : m.occ = {} }

(* the search finds the one-state solution <<0>> or nothing *)
PlainAnswers ==
    { o \in SearchOutcomes[1] :
        /\ o.set_start = 1 /\ o.set_goal = 1
        /\ o.path_cost = Len(o.sol)
        /\ o.sol \in {<< >>, <<0>>}
        /\ o.ret = Len(o.sol) }

MapsOffered ==
    CASE profile = "poses" -> SmallMaps
      [] profile = "search" -> FreeMaps
      [] OTHER -> Maps

PoseOutside == [x |-> 2, y |-> 4, theta |-> 0]

PosesOffered == IF profile = "poses" THEN Poses \ {PoseOutside} ELSE {PoseA}

(* the goals offered to plan(start, goal) include the pose half outside *)
GoalsOffered == IF profile = "poses" THEN Poses ELSE {PoseA}

AnswersOffered(n) ==
    IF profile = "search" THEN SearchOutcomes[n] ELSE PlainAnswers

PlannerTypesOffered ==
    IF profile = "maps" THEN PlannerTypes ELSE {"ARAPlanner"}

DirectionsOffered == IF profile = "maps" THEN BOOLEAN ELSE {FALSE}

-----------------------------------------------------------------------------
(* The planner as a state machine *)

Blank ==
    [op |-> "FootstepPlanner", start_arg |-> NoPose, goal_arg |-> NoPose,
     ret |-> "void", run |-> "none", runs |-> 0,
     searches |-> 0, ready |-> TRUE, prior |-> FALSE, path_cost |-> -1,
     ranStale |-> FALSE, update |-> "none", resets |-> 0,
     setups |-> 0, notified |-> << >>, ncc |-> 0, changed |-> << >>,
     assertOk |-> TRUE, trace |-> << >>, set |-> << >>, sol |-> << >>,
     map_arg |-> NoMap]

(* The parameters of the node: each footstep list is an XmlRpcValue that  *)
(* is missing (TypeInvalid), an array of doubles or of ints, a string, or *)
(* a single double.                                                       *)
MaxFootsteps == 2
HeuristicTypes ==
    {"EuclideanHeuristic", "EuclStepCostHeuristic", "PathCostHeuristic"}
XmlRpcValues ==
    {[type |-> "TypeInvalid", size |-> 0, of |-> "none"],
     [type |-> "TypeDouble", size |-> 0, of |-> "none"],
     [type |-> "TypeArray", size |-> 1, of |-> "TypeInt"]}
    \cup {[type |-> "TypeArray", size |-> n, of |-> "TypeDouble"] :
              n \in 0 .. MaxFootsteps}
    \cup {[type |-> "TypeString", size |-> n, of |-> "none"] : n \in 0 .. 1}
ParameterSets ==
    [x : XmlRpcValues, y : XmlRpcValues, theta : XmlRpcValues,
     heuristic_type : HeuristicTypes \cup {"OtherHeuristic"},
     planner_type : PlannerTypes \cup {"OtherPlanner"},
     forward_search : BOOLEAN]

(* XmlRpcValue::size(): the length of an array or a string, an *)
(* XmlRpcException for every other type                        *)
sizeThrows(v) == v.type \notin {"TypeArray", "TypeString"}

(* (double) list[i]: an XmlRpcException unless list is an array and its *)
(* element a double                                                     *)
elementThrows(v) == ~(v.type = "TypeArray" /\ v.of = "TypeDouble")

NotConstructed(params) ==
    [params |-> params, outcome |-> "pending", ivFootstepSet |-> << >>,
     heuristic |-> "none", environment |-> FALSE, kind |-> "none"]

(* FootstepPlanner::FootstepPlanner: how construction ends for the given *)
(* parameters, and what the planner then holds                           *)
FootstepPlannerCtor(params) ==
    LET none == NotConstructed(params)
        size == params.x.size
    IN  IF sizeThrows(params.x) \/ sizeThrows(params.y)
                \/ sizeThrows(params.theta)
        THEN [none EXCEPT !.outcome = "exit(0)"]
        ELSE IF size # params.y.size \/ size # params.theta.size
        THEN [none EXCEPT !.outcome = "exit(0)"]
        ELSE IF size > 0 /\ (elementThrows(params.x) \/ elementThrows(params.y)
                                \/ elementThrows(params.theta))
        THEN [none EXCEPT !.outcome = "terminate"]
        ELSE IF params.heuristic_type \notin HeuristicTypes
        THEN [none EXCEPT !.outcome = "exit(1)",
                          !.ivFootstepSet = [i \in 1 .. size |-> i]]
        ELSE IF params.planner_type \notin PlannerTypes
        THEN [none EXCEPT !.outcome = "exit(1)",
                          !.ivFootstepSet = [i \in 1 .. size |-> i],
                          !.heuristic = params.heuristic_type,
                          !.environment = TRUE]
        ELSE [none EXCEPT !.outcome = "constructed",
                          !.ivFootstepSet = [i \in 1 .. size |-> i],
                          !.heuristic = params.heuristic_type,
                          !.environment = TRUE,
                          !.kind = setupPlanner(params.planner_type)]

(* parameters as the node's configuration gives them *)
GivenParameters(planner_type, forward_search) ==
    [x |-> [type |-> "TypeArray", size |-> 1, of |-> "TypeDouble"],
     y |-> [type |-> "TypeArray", size |-> 1, of |-> "TypeDouble"],
     theta |-> [type |-> "TypeArray", size |-> 1, of |-> "TypeDouble"],
     heuristic_type |-> "EuclideanHeuristic",
     planner_type |-> planner_type, forward_search |-> forward_search]

(* FootstepPlanner::FootstepPlanner *)
InitPlanner ==
    /\ profile \in Profiles
    /\ ivPlannerType \in PlannerTypesOffered
    /\ ivForwardSearch \in DirectionsOffered
    /\ ivMapPtr = NoMap
    /\ ivStartPoseSetUp = FALSE
    /\ ivGoalPoseSetUp = FALSE
    /\ ivStartFootLeft = NoLegState
    /\ ivStartFootRight = NoLegState
    /\ ivGoalFootLeft = NoLegState
    /\ ivGoalFootRight = NoLegState
    /\ ivPlanExists = FALSE
    /\ ivPath = << >>
    /\ ivPathCost = 0
    /\ envMap = NoMap
    /\ envTable = << >>
    /\ process = FootstepPlannerCtor(GivenParameters(ivPlannerType,
                                                      ivForwardSearch))
    /\ plannerKind = process.kind
    /\ plannerSearched = FALSE
    /\ stale = FALSE
    /\ last = [Blank EXCEPT !.setups = 1, !.trace = <<"setupPlanner">>]
    /\ inflight = {}

(* the node before its planner is constructed *)
NoPlanner ==
    /\ profile = "poses"
    /\ process \in {NotConstructed(params) : params \in ParameterSets}
    /\ ivPlannerType = "unset"
    /\ ivForwardSearch = FALSE
    /\ ivMapPtr = NoMap
    /\ ivStartPoseSetUp = FALSE
    /\ ivGoalPoseSetUp = FALSE
    /\ ivStartFootLeft = NoLegState
    /\ ivStartFootRight = NoLegState
    /\ ivGoalFootLeft = NoLegState
    /\ ivGoalFootRight = NoLegState
    /\ ivPlanExists = FALSE
    /\ ivPath = << >>
    /\ ivPathCost = 0
    /\ envMap = NoMap
    /\ envTable = << >>
    /\ plannerKind = "none"
    /\ plannerSearched = FALSE
    /\ stale = FALSE
    /\ last = [Blank EXCEPT !.op = "none"]
    /\ inflight = {}

(* FootstepPlanner::FootstepPlanner runs on the parameters given *)
Construct ==
    /\ process.outcome = "pending"
    /\ process' = FootstepPlannerCtor(process.params)
    /\ ivPlannerType' = process.params.planner_type
    /\ ivForwardSearch' = process.params.forward_search
    /\ plannerKind' = process'.kind
    /\ last' = IF process'.outcome = "constructed"
                THEN [Blank EXCEPT !.setups = 1, !.trace = <<"setupPlanner">>]
                ELSE Blank
    /\ UNCHANGED <<ivMapPtr, ivStartPoseSetUp, ivGoalPoseSetUp,
                   ivStartFootLeft, ivStartFootRight, ivGoalFootLeft,
                   ivGoalFootRight, ivPlanExists, ivPath, ivPathCost, envMap,
                   envTable, plannerSearched, stale, profile, inflight,
                   psVars>>

Undef == IF envMap = NoMap THEN BOOLEAN \X BOOLEAN ELSE {<<FALSE, FALSE>>}

(* the search is asked only by a call that reaches run() *)
NoAnswer == [set_start |-> 0, set_goal |-> 1, ret |-> 0, sol |-> << >>,
             path_cost |-> 0]
Answers(probe) ==
    IF probe.runs = 0 THEN {NoAnswer} ELSE AnswersOffered(Len(probe.table))

SetMap ==
    \E m \in MapsOffered : \E oob \in [OutOfMask(m) -> BOOLEAN] :
        \E o \in Answers(setMap(Cur("setMap"), m, oob, NoAnswer)) :
            Commit(setMap(Cur("setMap"), m, oob, o))

SetGoal ==
    \E g \in PosesOffered : \E u \in Undef : Commit(setGoal(Cur("setGoal"), g, u))

SetStart ==
    \E s \in PosesOffered : \E u \in Undef : Commit(setStart(Cur("setStart"), s, u))

SetStartFeet ==
    \E s \in PosesOffered : \E u \in Undef :
        Commit(setStartFeet([Cur("setStartFeet") EXCEPT !.start_arg = s],
                            getFootPosition(s, "RIGHT"),
                            getFootPosition(s, "LEFT"), u))

Plan ==
    \E o \in Answers(plan(Cur("plan"), NoAnswer)) :
        Commit(plan(Cur("plan"), o))

PlanPoses ==
    \E s \in PosesOffered, g \in GoalsOffered : \E u \in Undef :
        \E o \in Answers(planPoses(Cur("planPoses"), s, g, u, NoAnswer)) :
            Commit(planPoses(Cur("planPoses"), s, g, u, o))

Replan ==
    \E o \in Answers(replan(Cur("replan"), NoAnswer)) :
        Commit(replan(Cur("replan"), o))

GoalPoseCallback ==
    \E g \in PosesOffered : \E u \in Undef :
        \E o \in Answers(goalPoseCallback(Cur("goalPoseCallback"), g, u,
                                          NoAnswer)) :
            Commit(goalPoseCallback(Cur("goalPoseCallback"), g, u, o))

StartPoseCallback ==
    \E s \in PosesOffered : \E u \in Undef :
        \E o \in Answers(startPoseCallback(Cur("startPoseCallback"), s, u,
                                           NoAnswer)) :
            Commit(startPoseCallback(Cur("startPoseCallback"), s, u, o))

-----------------------------------------------------------------------------
(* PlanningState *)

MaxCell == 0
HashSizes == {2, 3}
PSCells == -1 .. MaxCell
PSThetas == 0 .. ivNumAngleBins - 1
(* the angle bins callers hand to the integer constructor *)
PSThetaArgs == -1 .. ivNumAngleBins
PSLegs == {"RIGHT", "LEFT"}
(* what an uninitialised int member may hold *)
UninitInts == {-1, 0}

NoPS == [x |-> 0, y |-> 0, theta |-> 0, leg |-> "NOLEG", id |-> -1,
         hashTag |-> 0, max_hash_size |-> 0]

(* A 32-bit word is kept as the pair <<high half, low half>> of 16-bit *)
(* halves, so that no intermediate value needs more than 32 bits.       *)
Half == 65536
HalfSign == 32768

RECURSIVE Pow2(_)
Pow2(k) == IF k = 0 THEN 1 ELSE 2 * Pow2(k - 1)

(* the word of an int *)
Word(n) == <<(n \div Half) % Half, n % Half>>

SignedHigh(w) == IF w[1] >= HalfSign THEN w[1] - Half ELSE w[1]

(* + on 32 bits, wrapping *)
WordAdd(a, b) ==
    <<(a[1] + b[1] + (a[2] + b[2]) \div Half) % Half, (a[2] + b[2]) % Half>>

(* << by k < 16 on 32 bits, wrapping *)
ShiftLeft(w, k) ==
    <<(w[1] * Pow2(k) + (w[2] * Pow2(k)) \div Half) % Half,
      (w[2] * Pow2(k)) % Half>>

(* >> on an int: the arithmetic shift *)
ShiftRight(w, k) ==
    IF k < 16
    THEN <<(SignedHigh(w) \div Pow2(k)) % Half,
           w[2] \div Pow2(k) + (w[1] % Pow2(k)) * Pow2(16 - k)>>
    ELSE <<IF w[1] >= HalfSign THEN Half - 1 ELSE 0,
           (SignedHigh(w) \div Pow2(k - 16)) % Half>>

RECURSIVE BitXor(_, _)
BitXor(a, b) ==
    IF a = 0 THEN b
    ELSE IF b = 0 THEN a
    ELSE 2 * BitXor(a \div 2, b \div 2) + ((a + b) % 2)

WordXor(a, b) == <<BitXor(a[1], b[1]), BitXor(a[2], b[2])>>

(* an unsigned word modulo a small positive m *)
WordMod(w, m) == ((w[1] % m) * (Half % m) + w[2]) % m

(* helper.h: int_hash, the integer avalanche hash, on the word of the key *)
int_hash(k0) ==
    LET k1 == WordAdd(k0, ShiftLeft(k0, 12))
        k2 == WordXor(k1, ShiftRight(k1, 22))
        k3 == WordAdd(k2, ShiftLeft(k2, 4))
        k4 == WordXor(k3, ShiftRight(k3, 9))
        k5 == WordAdd(k4, ShiftLeft(k4, 10))
        k6 == WordXor(k5, ShiftRight(k5, 2))
        k7 == WordAdd(k6, ShiftLeft(k6, 7))
        k8 == WordXor(k7, ShiftRight(k7, 12))
    IN  k8

LegValue(leg) == CASE leg = "RIGHT" -> 0 [] leg = "LEFT" -> 1 [] OTHER -> 2

(* calculateHashTag without the reduction by max_hash_size: the low half *)
(* of the hash                                                           *)
calculateHashTagUnreduced(x, y, theta, leg, max_hash_size) ==
    int_hash(WordAdd(WordAdd(ShiftLeft(int_hash(Word(x)), 3),
                             ShiftLeft(int_hash(Word(y)), 2)),
                     WordAdd(ShiftLeft(int_hash(Word(theta)), 1),
                             int_hash(Word(LegValue(leg))))))[2]

(* PlanningState::calculateHashTag *)
calculateHashTag(x, y, theta, leg, max_hash_size) ==
    WordMod(int_hash(WordAdd(WordAdd(ShiftLeft(int_hash(Word(x)), 3),
                                     ShiftLeft(int_hash(Word(y)), 2)),
                             WordAdd(ShiftLeft(int_hash(Word(theta)), 1),
                                     int_hash(Word(LegValue(leg)))))),
            max_hash_size)

(* the hash tags of every state the model constructs, computed once *)
hashTagOf ==
    [x \in PSCells, y \in PSCells, theta \in PSThetaArgs, leg \in PSLegs,
     mhs \in HashSizes |-> calculateHashTag(x, y, theta, leg, mhs)]

(* PlanningState::PlanningState(int x, int y, int theta, Leg leg, ...): the *)
(* id is not initialised and holds `uninit'                                 *)
PlanningStateFromInts(x, y, theta, leg, max_hash_size, uninit) ==
    [x |-> x, y |-> y, theta |-> theta, leg |-> leg, id |-> uninit,
     hashTag |-> hashTagOf[x, y, theta, leg, max_hash_size],
     max_hash_size |-> max_hash_size]

(* PlanningState::PlanningState(const PlanningState& s) *)
PlanningStateCopy(s) ==
    [x |-> s.x, y |-> s.y, theta |-> s.theta, leg |-> s.leg, id |-> s.id,
     hashTag |-> s.hashTag, max_hash_size |-> s.max_hash_size]

(* operator== that looks at the id as well *)
PSEqualsComparingId(s1, s2) ==
    IF s1.hashTag # s2.hashTag THEN FALSE
    ELSE s1.x = s2.x /\ s1.y = s2.y /\ s1.theta = s2.theta /\ s1.leg = s2.leg
         /\ s1.id = s2.id

(* operator== trusting the hash tags *)
PSEqualsByHashTag(s1, s2) == s1.hashTag = s2.hashTag

(* PlanningState::operator== *)
PSEquals(s1, s2) ==
    IF s1.hashTag # s2.hashTag THEN FALSE
    ELSE s1.x = s2.x /\ s1.y = s2.y /\ s1.theta = s2.theta /\ s1.leg = s2.leg

(* PlanningState::operator!= *)
PSNotEquals(s1, s2) == ~PSEquals(s1, s2)

(* angle_state_2_cell without the wrap into [0, num_angle_bins) *)
angleBinUnwrapped(angle, num_angle_bins) ==
    Round(angle * num_angle_bins, AngleUnitsPerTurn)

(* helper.h: angle_state_2_cell *)
angle_state_2_cell(angle, num_angle_bins) ==
    Round(angle * num_angle_bins, AngleUnitsPerTurn) % num_angle_bins

(* the continuous coordinates and angles offered to the constructors: *)
(* those whose cell is one of PSCells                                  *)
PSCoords ==
    {v \in (-(MaxCell + 2) * ivCellSize) .. ((MaxCell + 2) * ivCellSize) :
        state_2_cell(v, ivCellSize) \in PSCells}
PSAngles == -(AngleUnitsPerTurn \div ivNumAngleBins) .. AngleUnitsPerTurn
PSStates == [x : PSCoords, y : PSCoords, theta : PSAngles, leg : PSLegs]

(* the State constructor taking s.y for x and s.x for y *)
PlanningStateTransposed(s, cell_size, num_angle_bins, max_hash_size) ==
    LET x == state_2_cell(s.y, cell_size)
        y == state_2_cell(s.x, cell_size)
        theta == angle_state_2_cell(s.theta, num_angle_bins)
    IN  [x |-> x, y |-> y, theta |-> theta, leg |-> s.leg, id |-> -1,
         hashTag |-> hashTagOf[x, y, theta, s.leg, max_hash_size],
         max_hash_size |-> max_hash_size]

(* PlanningState::PlanningState(const State& s, double cell_size, ...) *)
PlanningStateFromState(s, cell_size, num_angle_bins, max_hash_size) ==
    LET x == state_2_cell(s.x, cell_size)
        y == state_2_cell(s.y, cell_size)
        theta == angle_state_2_cell(s.theta, num_angle_bins)
    IN  [x |-> x, y |-> y, theta |-> theta, leg |-> s.leg, id |-> -1,
         hashTag |-> hashTagOf[x, y, theta, s.leg, max_hash_size],
         max_hash_size |-> max_hash_size]

(* PlanningState::PlanningState(double x, double y, double theta, Leg leg, *)
(* ...): the members as its initialiser list leaves them                    *)
PlanningStateFromDoubles(x, y, theta, leg, cell_size, num_angle_bins, max_hash_size) ==
    LET cx == state_2_cell(x, cell_size)
        cy == state_2_cell(y, cell_size)
        ct == angle_state_2_cell(theta, num_angle_bins)
    IN  [x |-> cx, y |-> cy, theta |-> ct, leg |-> leg, id |-> -1,
         hashTag |-> hashTagOf[cx, cy, ct, leg, max_hash_size],
         max_hash_size |-> max_hash_size]

(* the continuous State a planning state stands for *)
StateOf(p, cell_size, num_angle_bins) ==
    [x |-> cell_2_state(p.x, cell_size), y |-> cell_2_state(p.y, cell_size),
     theta |-> angle_cell_2_state(p.theta, num_angle_bins), leg |-> p.leg]

NotCompared == [done |-> FALSE, eq |-> FALSE, ne |-> FALSE]

(* how an object came to be: the constructor, and the angle bin it was *)
(* given where it was given one                                        *)
Made(ctor, theta) == [ctor |-> ctor, theta |-> theta]
NotMade == Made("none", 0)

InitPS ==
    /\ ps1 = NoPS /\ ps2 = NoPS /\ psCmp = NotCompared
    /\ psMade = [first |-> NotMade, second |-> NotMade]

Slot(first) == IF first THEN ps1 ELSE ps2
MadeOf(first) == IF first THEN psMade.first ELSE psMade.second
Aborted == psMade.first.ctor = "aborted" \/ psMade.second.ctor = "aborted"

(* the places a new object can take; none once the process has aborted *)
FreeSlots == IF Aborted THEN {} ELSE {f \in BOOLEAN : Slot(f) = NoPS}
HeldSlots == IF Aborted THEN {} ELSE {f \in BOOLEAN : Slot(f) # NoPS}

(* the object s, made as `how' says, takes the free place `first' *)
Build(first, s, how) ==
    /\ ps1' = IF first THEN s ELSE ps1
    /\ ps2' = IF first THEN ps2 ELSE s
    /\ psMade' = IF first THEN [psMade EXCEPT !.first = how]
                 ELSE [psMade EXCEPT !.second = how]
    /\ psCmp' = NotCompared
    /\ UNCHANGED plannerVars

ConstructFromInts ==
    \E first \in FreeSlots :
    \E x \in PSCells, y \in PSCells, theta \in PSThetaArgs, leg \in PSLegs,
       mhs \in HashSizes, uninit \in UninitInts :
        Build(first, PlanningStateFromInts(x, y, theta, leg, mhs, uninit),
              Made("ints", theta))

ConstructFromState ==
    \E first \in FreeSlots :
    \E s \in PSStates, mhs \in HashSizes :
        Build(first,
              PlanningStateFromState(s, ivCellSize, ivNumAngleBins, mhs),
              Made("state", 0))

(* the constructor's body is assert(false): a build with assertions stops *)
(* there, a build without them returns the object                         *)
ConstructFromDoubles ==
    \E first \in FreeSlots :
    \E s \in PSStates, mhs \in HashSizes, ndebug \in BOOLEAN :
        IF ndebug
        THEN Build(first,
                   PlanningStateFromDoubles(s.x, s.y, s.theta, s.leg,
                                            ivCellSize, ivNumAngleBins, mhs),
                   Made("doubles", 0))
        ELSE Build(first, NoPS, Made("aborted", 0))

ConstructCopy ==
    \E first \in FreeSlots :
        /\ Slot(~first) # NoPS
        /\ Build(first, PlanningStateCopy(Slot(~first)),
                 Made("copy", Slot(~first).theta))

(* a planning state is converted back to a State and constructed again *)
Rediscretize ==
    \E first \in FreeSlots :
        /\ Slot(~first) # NoPS
        /\ MadeOf(~first).ctor = "state"
        /\ Build(first,
                 PlanningStateFromState(
                     StateOf(Slot(~first), ivCellSize, ivNumAngleBins),
                     ivCellSize, ivNumAngleBins, Slot(~first).max_hash_size),
                 Made("again", 0))

(* PlanningState::~PlanningState *)
Destroy ==
    \E first \in HeldSlots :
        /\ ps1' = IF first THEN NoPS ELSE ps1
        /\ ps2' = IF first THEN ps2 ELSE NoPS
        /\ psMade' = IF first THEN [psMade EXCEPT !.first = NotMade]
                     ELSE [psMade EXCEPT !.second = NotMade]
        /\ psCmp' = NotCompared
        /\ UNCHANGED plannerVars

Compare ==
    /\ ~Aborted
    /\ ps1 # NoPS /\ ps2 # NoPS
    /\ psCmp' = [done |-> TRUE, eq |-> PSEquals(ps1, ps2),
                 ne |-> PSNotEquals(ps1, ps2)]
    /\ UNCHANGED <<ps1, ps2, psMade, plannerVars>>

Init == InitPlanner /\ InitPS

Next ==
    \/ SetMap
    \/ SetGoal
    \/ SetStart
    \/ SetStartFeet
    \/ Plan
    \/ PlanPoses
    \/ Replan
    \/ GoalPoseCallback
    \/ StartPoseCallback

Spec == Init /\ [][Next]_vars

(* the planning states alone, beside a planner that is left as constructed *)
InitPlanningStates ==
    InitPlanner /\ InitPS /\ profile = "search"

NextPS ==
    \/ ConstructFromInts
    \/ ConstructFromState
    \/ ConstructFromDoubles
    \/ ConstructCopy
    \/ Rediscretize
    \/ Destroy
    \/ Compare

SpecPS == InitPlanningStates /\ [][NextPS]_vars

(* The node serving its subscriptions and its service: the spinner hands  *)
(* a message to its callback (Accept), the callback returns (Finish).     *)

(* a spinner dispatching on several threads: it hands over a message *)
(* whatever is running                                               *)
spinnerAlwaysFree(running) == TRUE

(* the spinner dispatches on one thread: it hands over a message only     *)
(* when no callback is running                                            *)
spinnerFree(running) == running = {}

(* what each callback does with each message it may be given now *)
Requests ==
    UNION {
        UNION { UNION { { setMap(Cur("setMap"), m, oob, o) :
                            o \in Answers(setMap(Cur("setMap"), m, oob,
                                                 NoAnswer)) } :
                        oob \in [OutOfMask(m) -> BOOLEAN] } :
                m \in MapsOffered },
        UNION { UNION { { goalPoseCallback(Cur("goalPoseCallback"), g, u, o) :
                            o \in Answers(goalPoseCallback(
                                              Cur("goalPoseCallback"), g, u,
                                              NoAnswer)) } :
                        u \in Undef } :
                g \in PosesOffered },
        UNION { UNION { { startPoseCallback(Cur("startPoseCallback"), p, u, o) :
                            o \in Answers(startPoseCallback(
                                              Cur("startPoseCallback"), p, u,
                                              NoAnswer)) } :
                        u \in Undef } :
                p \in PosesOffered },
        UNION { UNION { { planPoses(Cur("planService"), p[1], p[2], u, o) :
                            o \in Answers(planPoses(Cur("planService"), p[1],
                                                    p[2], u, NoAnswer)) } :
                        u \in Undef } :
                p \in PosesOffered \X PosesOffered } }

Accept ==
    /\ spinnerFree(inflight)
    /\ \E c \in Requests : inflight' = inflight \cup {c}
    /\ UNCHANGED <<ivPlannerType, ivForwardSearch, ivMapPtr, ivStartPoseSetUp,
                   ivGoalPoseSetUp, ivStartFootLeft, ivStartFootRight,
                   ivGoalFootLeft, ivGoalFootRight, ivPlanExists, ivPath,
                   ivPathCost, envMap, envTable, plannerKind, plannerSearched,
                   stale, last, profile, process, psVars>>

Finish == \E c \in inflight : Commit(c)

InitServing == InitPlanner /\ InitPS /\ profile = "poses"

NextServing ==
    \/ Accept
    \/ Finish

SpecServing == InitServing /\ [][NextServing]_vars

(* the construction of the planner alone, over the parameters of the node *)
NextProcess == Construct

InitProcess == NoPlanner /\ InitPS

SpecProcess == InitProcess /\ [][NextProcess]_vars

-----------------------------------------------------------------------------
(* Properties *)

GoalFields == <<ivGoalFootLeft, ivGoalFootRight, ivGoalPoseSetUp>>
StartFields == <<ivStartFootLeft, ivStartFootRight, ivStartPoseSetUp>>
PlannerFields ==
    <<ivPlannerType, ivForwardSearch, ivMapPtr, StartFields, GoalFields,
      ivPlanExists, ivPath, ivPathCost, envMap, envTable, plannerKind,
      plannerSearched, stale>>

(* a foot derived from the robot pose is occupied on the map m *)
PoseOccupied(m, pose) ==
    \/ occupied(m, getFootPosition(pose, "LEFT"), FALSE)
    \/ occupied(m, getFootPosition(pose, "RIGHT"), FALSE)

C1_Step ==
    /\ (last'.op = "setGoal" /\ ivMapPtr # NoMap
            /\ PoseOccupied(ivMapPtr, last'.goal_arg))
        => (last'.ret = "false" /\ UNCHANGED GoalFields)
    /\ (last'.op \in {"setStart", "setStartFeet"} /\ ivMapPtr # NoMap
            /\ PoseOccupied(ivMapPtr, last'.start_arg))
        => (last'.ret = "false" /\ UNCHANGED StartFields)
    /\ (last'.op = "goalPoseCallback" /\ ivMapPtr # NoMap
            /\ PoseOccupied(ivMapPtr, last'.goal_arg))
        => (last'.runs = 0 /\ last'.searches = 0 /\ UNCHANGED GoalFields)
    /\ (last'.op = "startPoseCallback" /\ ivMapPtr # NoMap
            /\ PoseOccupied(ivMapPtr, last'.start_arg))
        => (last'.runs = 0 /\ last'.searches = 0 /\ UNCHANGED StartFields)
    /\ (last'.op = "planPoses" /\ ivMapPtr # NoMap
            /\ PoseOccupied(ivMapPtr, last'.start_arg))
        => (last'.ret = "false" /\ last'.runs = 0 /\ last'.searches = 0
            /\ UNCHANGED StartFields /\ UNCHANGED GoalFields)
    /\ (last'.op = "planPoses" /\ ivMapPtr # NoMap
            /\ last'.goal_arg # NoPose
            /\ PoseOccupied(ivMapPtr, last'.goal_arg))
        => (last'.ret = "false" /\ last'.runs = 0 /\ last'.searches = 0
            /\ UNCHANGED GoalFields)

(* C1: setGoal and setStart return false whenever the left or the right foot *)
(* derived from the pose stands on an occupied position of the current map; *)
(* the stored feet and the set-up flag are then as they were, and the       *)
(* caller (goalPoseCallback, startPoseCallback, plan(start, goal)) starts   *)
(* no search.                                                               *)
C1_OccupiedPoseRejected == [][C1_Step]_vars

(* a goal pose whose right foot alone is occupied has been turned down by *)
(* goalPoseCallback while another goal and a start were set               *)
C1_Witness ==
    /\ last.op = "goalPoseCallback"
    /\ last.runs = 0
    /\ ivMapPtr # NoMap
    /\ ivStartPoseSetUp /\ ivGoalPoseSetUp
    /\ ~occupied(ivMapPtr, getFootPosition(last.goal_arg, "LEFT"), FALSE)
    /\ occupied(ivMapPtr, getFootPosition(last.goal_arg, "RIGHT"), FALSE)
    /\ ivGoalFootLeft # getFootPosition(last.goal_arg, "LEFT")

C2_Step ==
    last'.op \in {"plan", "replan"} =>
        IF ivMapPtr = NoMap \/ ~ivStartPoseSetUp \/ ~ivGoalPoseSetUp
        THEN /\ last'.ret = "false"
             /\ last'.resets = 0 /\ last'.setups = 0
             /\ last'.runs = 0 /\ last'.searches = 0
             /\ UNCHANGED PlannerFields
        ELSE /\ last'.runs = 1
             /\ last'.op = "plan" => (last'.resets = 1 /\ last'.setups = 1)

(* C2: plan() and replan() return false, without resetting the environment, *)
(* creating a planner or searching, whenever no map is loaded or the start  *)
(* or the goal is not set, and leave every field of the planner as it was;  *)
(* called with map, start and goal present they go on to run().             *)
C2_PlanNeedsInputs == [][C2_Step]_vars

(* plan() has returned false for the missing goal alone *)
C2_Witness ==
    /\ last.op = "plan"
    /\ last.ret = "false"
    /\ last.runs = 0
    /\ ivMapPtr # NoMap
    /\ ivStartPoseSetUp
    /\ ~ivGoalPoseSetUp

(* C3: every invocation of run() happens with a map loaded and with a start *)
(* and a goal accepted, and the assert(ivMapPtr) of the callbacks holds.    *)
C3_RunOnlyWhenReady ==
    /\ last.assertOk
    /\ last.runs > 0 =>
           (last.ready /\ ivMapPtr # NoMap /\ ivStartPoseSetUp
            /\ ivGoalPoseSetUp)

(* startPoseCallback has gone on to run() *)
C3_Witness ==
    /\ last.op = "startPoseCallback"
    /\ last.runs = 1
    /\ last.searches = 1
    /\ last.ready

(* C4: whenever run() reports failure, because the search returns no     *)
(* solution or because a state id of the solution cannot be resolved, a  *)
(* previously stored plan is retained untouched: the path, the path cost *)
(* and the plan-exists flag are after the call what they were before it. *)
C4_FailedRunKeepsPlan ==
    [][(last'.run \in {"noSolution", "extractFail"} /\ last'.prior)
          => (ivPath' = ivPath /\ ivPathCost' = ivPathCost
              /\ ivPlanExists' = ivPlanExists)]_vars

(* C5: once setMap has replaced a loaded map by a different one, no search *)
(* runs on search state built for the old map: before the next search the  *)
(* planner has been notified of the change or been reset.                  *)
C5_NoSearchOnStaleState == last.searches > 0 => ~last.ranStale

(* the two maps have the same resolution, height and width *)
SameGrid(old_map, new_map) ==
    /\ new_map.res = old_map.res
    /\ new_map.rows = old_map.rows
    /\ new_map.cols = old_map.cols

(* the step is a setMap that calls updateEnvironment *)
UpdateStep == last'.op = "setMap" /\ ivMapPtr # NoMap /\ ivPlanExists

C6_Step ==
    (UpdateStep /\ (ivPlannerType # "ADPlanner"
                       \/ ~SameGrid(ivMapPtr, ivMapPtr')))
    => /\ last'.update = "RESET"
       /\ last'.resets = 1 /\ last'.setups = 1
       /\ last'.notified = << >>
       /\ last'.ncc = 0 /\ last'.changed = << >>
       /\ plannerKind' = setupPlanner(ivPlannerType)
       /\ envTable' = setUp(<< >>, ivStartFootLeft', ivStartFootRight',
                            ivGoalFootLeft', ivGoalFootRight')
       /\ last'.ret = "void"
       /\ last'.assertOk

(* C6: in updateEnvironment, if the planner is not the ADPlanner or the new *)
(* map's resolution, width or height differs from the old map's, the RESET  *)
(* path is taken: the environment is reset, a fresh search algorithm is     *)
(* created, no cost change is notified and no error is surfaced.            *)
C6_ResetWhenIncompatible == [][C6_Step]_vars

(* an ADPlanner has been reset for a map of another resolution or size *)
C6_Witness ==
    /\ last.op = "setMap"
    /\ last.update = "RESET"
    /\ ivPlannerType = "ADPlanner"
    /\ last.ncc = 0
    /\ last.resets = 1
    /\ last.runs = 1

(* the cells whose occupancy flipped *)
RawChanged(old_map, new_map) ==
    { c \in CellsOf(new_map.rows, new_map.cols) :
        (c \in old_map.occ) # (c \in new_map.occ) }

C7_RawStep ==
    (UpdateStep /\ ivPlannerType = "ADPlanner"
                /\ SameGrid(ivMapPtr, ivMapPtr'))
    => LET n == Cardinality(RawChanged(ivMapPtr, ivMapPtr'))
       IN  /\ (last'.update = "INCREMENTAL")
                  <=> (1 <= n /\ n <= ivChangedCellsLimit)
           /\ (last'.update = "RESET") <=> (n > ivChangedCellsLimit)

(* C7 as stated: for compatible maps INCREMENTAL is chosen iff the number *)
(* of cells whose occupancy flipped is at least 1 and at most the limit,  *)
(* RESET iff it exceeds the limit.                                        *)
C7_DecidedOnRawCells == [][C7_RawStep]_vars

(* the cells within the foot radius of a flipped cell *)
Flagged(old_map, new_map) ==
    { c \in CellsOf(new_map.rows, new_map.cols) :
        \E d \in RawChanged(old_map, new_map) :
            ((c[1] - d[1]) * (c[1] - d[1]) + (c[2] - d[2]) * (c[2] - d[2]))
                * new_map.res * new_map.res
            <= (Abs(ivOriginFootShiftX) + ivFootsizeX \div 2)
                   * (Abs(ivOriginFootShiftX) + ivFootsizeX \div 2)
               + (Abs(ivOriginFootShiftY) + ivFootsizeY \div 2)
                   * (Abs(ivOriginFootShiftY) + ivFootsizeY \div 2) }

C7_FlaggedStep ==
    (UpdateStep /\ ivPlannerType = "ADPlanner"
                /\ SameGrid(ivMapPtr, ivMapPtr'))
    => /\ (last'.update = "INCREMENTAL")
              <=> (1 <= last'.ncc /\ last'.ncc <= ivChangedCellsLimit)
       /\ (last'.update = "RESET") <=> (last'.ncc > ivChangedCellsLimit)
       /\ (last'.update = "NOOP") <=> (last'.ncc = 0)
       /\ last'.update = "INCREMENTAL"
              => (Len(last'.notified) = 1 /\ last'.resets = 0
                  /\ last'.setups = 0)
       /\ last'.update = "RESET"
              => (last'.notified = << >> /\ last'.resets = 1
                  /\ last'.setups = 1)
       /\ ivMapPtr'.rows = ivMapPtr'.cols
              => last'.ncc = Cardinality(Flagged(ivMapPtr, ivMapPtr'))

(* C7 amended: the choice is made on the number of cells the enumeration   *)
(* counts as flagged after the inflation by the foot radius (on a square   *)
(* map: the number of cells within the foot radius of a flipped cell):     *)
(* INCREMENTAL iff it is at least 1 and at most the limit, RESET iff it    *)
(* exceeds the limit.                                                      *)
C7_DecidedOnFlaggedCells == [][C7_FlaggedStep]_vars

(* an incremental update with exactly as many flagged cells as the limit *)
C7_Witness ==
    /\ last.op = "setMap"
    /\ last.update = "INCREMENTAL"
    /\ last.ncc = ivChangedCellsLimit
    /\ Len(last.notified) = 1

(* C8: a map update whose bitmap is identical to the previous map's is a *)
(* no-op: no reset, no notification, no search started by setMap, and    *)
(* the path and the path cost are unaltered.                             *)
C8_IdenticalMapIsNoOp ==
    [][(last'.op = "setMap" /\ ivMapPtr # NoMap /\ ivMapPtr' = ivMapPtr)
          => (last'.resets = 0 /\ last'.notified = << >>
              /\ last'.runs = 0 /\ last'.searches = 0
              /\ ivPath' = ivPath /\ ivPathCost' = ivPathCost)]_vars

C9_Step ==
    (UpdateStep /\ ivPlannerType = "ADPlanner"
                /\ SameGrid(ivMapPtr, ivMapPtr'))
    => LET flagged == Flagged(ivMapPtr, ivMapPtr')
           ch == last'.changed
       IN  /\ Len(ch) = Cardinality(flagged) * ivNumAngleBins
           /\ \A c \in flagged : \A t \in 0 .. ivNumAngleBins - 1 :
                  Cardinality({ k \in DOMAIN ch :
                      /\ ch[k].x = mapToWorld(ivMapPtr', c[1])
                      /\ ch[k].y = mapToWorld(ivMapPtr', c[2])
                      /\ ch[k].theta
                             = angle_cell_2_state(t, ivNumAngleBins) }) = 1
           /\ ivMapPtr'.occ = ivMapPtr.occ => ch = << >>

(* C9: in the change detection every flagged cell contributes exactly one *)
(* changed state per angle bin, at the cell's world position; the list    *)
(* has numFlaggedCells * numAngleBins entries, and identical bitmaps      *)
(* produce none.                                                          *)
C9_OneStatePerBinPerFlaggedCell == [][C9_Step]_vars

SameFields(s1, s2) ==
    s1.x = s2.x /\ s1.y = s2.y /\ s1.theta = s2.theta /\ s1.leg = s2.leg

(* C10: for every pair of PlanningStates, differing hash tags make == false; *)
(* with matching hash tags == is true iff x, y, theta and leg all match;     *)
(* != is the negation of ==; for states built with the same maxHashSize      *)
(* == holds iff the four fields match.                                       *)
C10_EqualityByFields ==
    psCmp.done =>
        /\ ps1.hashTag # ps2.hashTag => ~psCmp.eq
        /\ ps1.hashTag = ps2.hashTag => (psCmp.eq <=> SameFields(ps1, ps2))
        /\ psCmp.ne <=> ~psCmp.eq
        /\ ps1.max_hash_size = ps2.max_hash_size
               => (psCmp.eq <=> SameFields(ps1, ps2))

(* two different states of one hash size whose tags collide have been *)
(* compared                                                           *)
C10_Witness ==
    /\ psCmp.done
    /\ ps1.max_hash_size = ps2.max_hash_size
    /\ ps1.hashTag = ps2.hashTag
    /\ ~SameFields(ps1, ps2)
    /\ ~psCmp.eq /\ psCmp.ne

(* C11 as stated: every PlanningState that exists, whichever constructor *)
(* produced it, has its angle bin theta in [0, numAngleBins).              *)
C11_ThetaInRange ==
    \A first \in BOOLEAN :
        Slot(first) # NoPS => Slot(first).theta \in 0 .. ivNumAngleBins - 1

(* C11: a PlanningState built from a continuous State or from continuous   *)
(* coordinates has its angle bin theta in [0, numAngleBins); one built     *)
(* from integer fields holds the theta it was given, in range exactly when *)
(* the argument was; a copy holds the theta of the state it was copied     *)
(* from.                                                                   *)
C11_ThetaAsConstructed ==
    \A first \in BOOLEAN :
        Slot(first) # NoPS =>
            /\ MadeOf(first).ctor \in {"state", "doubles", "again"}
                   => Slot(first).theta \in 0 .. ivNumAngleBins - 1
            /\ MadeOf(first).ctor \in {"ints", "copy"}
                   => Slot(first).theta = MadeOf(first).theta

C11_Witness ==
    /\ psMade.first.ctor = "state" /\ ps1.theta = ivNumAngleBins - 1
    /\ psMade.second.ctor = "ints" /\ ps2.theta = ivNumAngleBins

(* C12: every newly constructed PlanningState, built from a continuous    *)
(* State or from integer fields, has id -1.                                *)
C12_NewStateHasNoId ==
    \A first \in BOOLEAN :
        (Slot(first) # NoPS /\ MadeOf(first).ctor \in {"state", "ints"})
            => Slot(first).id = -1

(* C13: the hash tag of a PlanningState lies in [0, maxHashSize) and is  *)
(* determined by x, y, theta, leg and maxHashSize alone: two states that  *)
(* agree on these carry the same tag, whatever their ids and whichever    *)
(* constructors built them; this also for negative cells and when the     *)
(* 32-bit sums and shifts wrap.                                           *)
C13_HashTagFunctionInRange ==
    /\ \A first \in BOOLEAN :
           Slot(first) # NoPS =>
               /\ Slot(first).hashTag >= 0
               /\ Slot(first).hashTag < Slot(first).max_hash_size
    /\ (ps1 # NoPS /\ ps2 # NoPS /\ SameFields(ps1, ps2)
            /\ ps1.max_hash_size = ps2.max_hash_size)
           => ps1.hashTag = ps2.hashTag

(* a negative cell whose hash loses bits in the shift by 3, in two states *)
(* that differ in id and constructor                                      *)
C13_Witness ==
    /\ ps1 # NoPS /\ ps2 # NoPS
    /\ ps1.x < 0
    /\ int_hash(Word(ps1.x))[1] >= Half \div 8
    /\ SameFields(ps1, ps2) /\ ps1.max_hash_size = ps2.max_hash_size
    /\ psMade.first.ctor = "ints" /\ psMade.second.ctor = "state"
    /\ ps1.id # ps2.id
    /\ ps1.hashTag = ps2.hashTag

(* C14: when a PlanningState p built from a continuous State is converted *)
(* back to a State (cell and angle bin to continuous values) and a        *)
(* PlanningState is built from that State with the same cell size, number *)
(* of angle bins, hash size and leg, the new state equals p: same x, y,   *)
(* theta, leg and hash tag.                                               *)
C14_DiscretizationIdempotent ==
    [][\A first \in BOOLEAN :
           (MadeOf(first).ctor # "again" /\ MadeOf(first)'.ctor = "again")
               => LET p == Slot(~first)
                      q == Slot(first)'
                  IN  /\ SameFields(p, q)
                      /\ q.hashTag = p.hashTag
                      /\ q.max_hash_size = p.max_hash_size
                      /\ q.id = p.id
                      /\ PSEquals(p, q)]_vars

C14_Witness ==
    /\ psMade.first.ctor = "state" /\ psMade.second.ctor = "again"
    /\ ps1.x < 0 /\ ps1.y = 0 /\ ps1.theta = ivNumAngleBins - 1
    /\ SameFields(ps1, ps2) /\ ps1.hashTag = ps2.hashTag

(* C15: construction aborts (no planner, no search algorithm instance)     *)
(* whenever a footstep list is missing or not an array, or the lists       *)
(* differ in length, or the heuristic type or the planner type is not one  *)
(* of the three names known; a planner that is constructed holds a         *)
(* footstep set built from arrays of equal length, a heuristic and a       *)
(* search algorithm instance.                                              *)
ListsBad(params) ==
    \/ params.x.type # "TypeArray"
    \/ params.y.type # "TypeArray"
    \/ params.theta.type # "TypeArray"
    \/ params.x.size # params.y.size
    \/ params.x.size # params.theta.size

C15_BadConfigurationAborts ==
    process.outcome # "pending" =>
        /\ (\/ ListsBad(process.params)
            \/ process.params.heuristic_type \notin HeuristicTypes
            \/ process.params.planner_type \notin PlannerTypes)
               => /\ process.outcome \in {"exit(0)", "exit(1)", "terminate"}
                  /\ plannerKind = "none"
        /\ process.outcome = "constructed"
               => /\ ~ListsBad(process.params)
                  /\ Len(process.ivFootstepSet) = process.params.x.size
                  /\ process.heuristic \in HeuristicTypes
                  /\ plannerKind \in PlannerTypes

(* how often `call' occurs among the calls of the last request *)
Calls(call) == Cardinality({i \in DOMAIN last.trace : last.trace[i] = call})

(* C16: no request retries: each call of plan(), replan(),               *)
(* goalPoseCallback, startPoseCallback or setMap (and of every other      *)
(* operation) enters run() at most once and calls the search's replan at  *)
(* most once; a search that failed is followed by no other call of        *)
(* replan within the request.                                             *)
C16_NoInternalRetry ==
    /\ last.runs <= 1
    /\ last.searches <= 1
    /\ Calls("replan") = last.searches
    /\ Calls("setUp") = last.runs
    /\ last.run \in {"noSolution", "extractFail"} =>
           \A i \in DOMAIN last.trace :
               last.trace[i] = "replan" =>
                   \A j \in DOMAIN last.trace :
                       j > i => last.trace[j] = "extractSolution"

C16_Witness ==
    /\ last.op \in {"plan", "replan", "goalPoseCallback", "startPoseCallback",
                    "setMap"}
    /\ last.run = "noSolution"
    /\ last.searches = 1
    /\ ivStartPoseSetUp /\ ivGoalPoseSetUp /\ ivMapPtr # NoMap

FirstCalls(n) ==
    IF Len(last'.trace) < n THEN << >> ELSE SubSeq(last'.trace, 1, n)

(* the state table after the request begins with the table before it *)
TableKept ==
    /\ Len(envTable') >= Len(envTable)
    /\ SubSeq(envTable', 1, Len(envTable)) = envTable

(* C18: a plan() call whose preconditions hold (map, start and goal set)  *)
(* plans from scratch: it resets the environment and creates a fresh      *)
(* search instance, both before setUp and before the search; replan(),    *)
(* the pose callbacks and the INCREMENTAL map update reach the search     *)
(* without a reset and on the search instance that was there.             *)
C18_PlanFromScratchOnlyInPlan ==
    [][/\ (last'.op = "plan" /\ ivMapPtr # NoMap /\ ivStartPoseSetUp
               /\ ivGoalPoseSetUp)
           => /\ last'.runs = 1
              /\ last'.resets = 1 /\ last'.setups = 1
              /\ FirstCalls(4) = <<"reset", "setupPlanner", "setUp",
                                   "set_start">>
              /\ envTable' = setUp(<< >>, ivStartFootLeft, ivStartFootRight,
                                   ivGoalFootLeft, ivGoalFootRight)
              /\ plannerSearched' = (last'.searches = 1)
       /\ (last'.op \in {"replan", "goalPoseCallback", "startPoseCallback"}
               /\ last'.runs = 1)
           => /\ last'.resets = 0 /\ last'.setups = 0
              /\ FirstCalls(2) = <<"setUp", "set_start">>
              /\ TableKept
              /\ plannerKind' = plannerKind
              /\ plannerSearched => plannerSearched'
       /\ (last'.op = "setMap" /\ last'.update = "INCREMENTAL")
           => /\ last'.runs = 1
              /\ last'.resets = 0 /\ last'.setups = 0
              /\ FirstCalls(3) = <<"costs_changed", "setUp", "set_start">>
              /\ TableKept
              /\ plannerKind' = plannerKind
              /\ plannerSearched => plannerSearched']_vars

(* plan() served where a plan existed and the instance had searched *)
C18_Witness ==
    /\ last.op = "plan" /\ last.prior /\ last.resets = 1
    /\ last.searches = 1 /\ last.run = "ok"

(* the calls run() made in the request just served: those from setUp on *)
RunCalls ==
    LET t == last'.trace
        first == CHOOSE i \in DOMAIN t : t[i] = "setUp"
    IN  SubSeq(t, first, Len(t))

(* C19: within one run() the calls are setUp with the four feet, then     *)
(* set_start, then set_goal, then set_initialsolution_eps and             *)
(* set_search_mode, then exactly one replan; replan is called only if     *)
(* set_start and set_goal both succeeded; if either fails run() returns   *)
(* false and the stored path, path cost and plan-exists flag are as they  *)
(* were.                                                                  *)
C19_RunSequence ==
    [][last'.runs = 1 =>
        /\ setUp(envTable', ivStartFootLeft', ivStartFootRight',
                 ivGoalFootLeft', ivGoalFootRight') = envTable'
        /\ \/ /\ last'.set = <<0>>
              /\ RunCalls = <<"setUp", "set_start">>
           \/ /\ last'.set = <<1, 0>>
              /\ RunCalls = <<"setUp", "set_start", "set_goal">>
           \/ /\ last'.set = <<1, 1>>
              /\ RunCalls \in
                   {<<"setUp", "set_start", "set_goal",
                      "set_initialsolution_eps", "set_search_mode", "replan">>,
                    <<"setUp", "set_start", "set_goal",
                      "set_initialsolution_eps", "set_search_mode", "replan",
                      "extractSolution">>}
        /\ last'.searches = (IF last'.set = <<1, 1>> THEN 1 ELSE 0)
        /\ last'.set # <<1, 1>> =>
               /\ last'.run \in {"startFail", "goalFail"}
               /\ last'.op \in {"plan", "replan", "planPoses"}
                      => last'.ret = "false"
               /\ ivPath' = ivPath
               /\ ivPathCost' = ivPathCost
               /\ ivPlanExists' = ivPlanExists]_vars

(* set_goal failed where a plan with a cost was stored *)
C19_Witness ==
    /\ last.runs = 1 /\ last.set = <<1, 0>> /\ last.run = "goalFail"
    /\ ivPlanExists /\ ivPath # << >> /\ ivPathCost > 0

(* C20: extractSolution is all-or-nothing: if every id of the solution   *)
(* resolves it returns true and the stored path holds exactly one pose    *)
(* per id, in order; if any id fails it returns false and the stored path *)
(* is empty.                                                              *)
C20_ExtractAllOrNothing ==
    last.sol # << >> =>
        IF \A i \in DOMAIN last.sol : getStateOk(envTable, last.sol[i])
        THEN /\ last.run = "ok"
             /\ ivPlanExists
             /\ Len(ivPath) = Len(last.sol)
             /\ \A i \in DOMAIN last.sol :
                    ivPath[i] = getState(envTable, last.sol[i])
        ELSE /\ last.run = "extractFail"
             /\ ~ivPlanExists
             /\ ivPath = << >>

(* the first id resolved, the second did not, where a plan was stored *)
C20_Witness ==
    /\ Len(last.sol) = 2
    /\ getStateOk(envTable, last.sol[1])
    /\ ~getStateOk(envTable, last.sol[2])
    /\ last.prior
    /\ ivPath = << >>

(* C21: on the INCREMENTAL path the changed states are mapped to the ids *)
(* of registered states, with getSuccsOfGridCells on a forward search and *)
(* with getPredsOfGridCells on a backward one; exactly one cost-change    *)
(* notification, carrying those ids, goes to the search instance; the     *)
(* registered states and the search instance are kept.                    *)
C21_IncrementalNotifiesOnce ==
    [][(UpdateStep /\ last'.update = "INCREMENTAL")
        => /\ Len(last'.notified) = 1
           /\ Cardinality({i \in DOMAIN last'.trace :
                              last'.trace[i] = "costs_changed"}) = 1
           /\ last'.notified[1].via =
                  (IF ivForwardSearch THEN "getSuccsOfGridCells"
                   ELSE "getPredsOfGridCells")
           /\ last'.notified[1].ids = idsOfGridCells(envTable, last'.changed)
           /\ last'.notified[1].ids \subseteq 0 .. Len(envTable) - 1
           /\ last'.notified[1].on = plannerKind
           /\ last'.resets = 0 /\ last'.setups = 0
           /\ TableKept
           /\ plannerKind' = plannerKind]_vars

(* a forward search told of registered states on changed cells *)
C21_Witness ==
    /\ last.op = "setMap" /\ last.update = "INCREMENTAL"
    /\ ivForwardSearch
    /\ Len(last.notified) = 1
    /\ last.notified[1].via = "getSuccsOfGridCells"
    /\ last.notified[1].ids # {}

(* the position of the first `call' among the calls of the request just *)
(* served, 0 if there is none                                            *)
FirstCall(call) ==
    LET t == last'.trace
    IN  IF \E i \in DOMAIN t : t[i] = call
        THEN CHOOSE i \in DOMAIN t :
                 t[i] = call /\ \A j \in 1 .. i - 1 : t[j] # call
        ELSE 0

(* C22: every setMap stores the new map in the planner and hands it to   *)
(* the environment; with no map loaded before, or with no plan, it does  *)
(* nothing else (no change detection, no reset, no notification, no      *)
(* search), whether or not start and goal are set; with a map and a plan *)
(* it makes exactly one pass of updateEnvironment and then exactly one   *)
(* run(), and returns.                                                   *)
C22_SetMapStoresThenUpdates ==
    [][last'.op = "setMap" =>
        /\ last'.map_arg # NoMap
        /\ ivMapPtr' = last'.map_arg
        /\ envMap' = last'.map_arg
        /\ last'.ret = "void"
        /\ (ivMapPtr = NoMap \/ ~ivPlanExists) =>
               /\ last'.update = "none"
               /\ last'.ncc = 0 /\ last'.changed = << >>
               /\ last'.resets = 0 /\ last'.setups = 0
               /\ last'.notified = << >>
               /\ last'.runs = 0 /\ last'.searches = 0
               /\ last'.trace = << >>
               /\ UNCHANGED <<ivStartPoseSetUp, ivGoalPoseSetUp,
                              ivStartFootLeft, ivStartFootRight,
                              ivGoalFootLeft, ivGoalFootRight, ivPlanExists,
                              ivPath, ivPathCost, envTable, plannerKind,
                              plannerSearched>>
        /\ (ivMapPtr # NoMap /\ ivPlanExists) =>
               /\ last'.update \in {"NOOP", "INCREMENTAL", "RESET"}
               /\ last'.runs = 1
               /\ Cardinality({i \in DOMAIN last'.trace :
                                  last'.trace[i] = "setUp"}) = 1
               /\ \A i \in DOMAIN last'.trace :
                      last'.trace[i] \in {"reset", "setupPlanner",
                                          "costs_changed"}
                          => i < FirstCall("setUp")
               /\ last'.resets + Len(last'.notified) <= 1]_vars

(* a map arrives where start and goal are set and the search has run, *)
(* but no plan exists                                                 *)
C22_Witness ==
    /\ last.op = "setMap" /\ last.update = "none"
    /\ ivStartPoseSetUp /\ ivGoalPoseSetUp
    /\ plannerSearched /\ ~ivPlanExists
    /\ last.runs = 0

(* C23: in every reachable state the plan-exists flag is true exactly   *)
(* when the stored path is not empty; so a map update goes through       *)
(* updateEnvironment and run() only where a path that is not empty is    *)
(* stored.                                                               *)
C23_PlanExistsIffPath ==
    /\ [](ivPlanExists <=> ivPath # << >>)
    /\ [][(last'.op = "setMap" /\ (last'.update # "none" \/ last'.runs > 0))
              => ivPath # << >>]_vars

(* a map update replanned on a stored path, and the flag and the path *)
(* are set after it                                                   *)
C23_Witness ==
    /\ last.op = "setMap" /\ last.update # "none" /\ last.runs = 1
    /\ last.prior
    /\ ivPlanExists /\ ivPath # << >>

(* C24: in every reachable state the search instance is of the          *)
(* configured planner type, after construction, plan() and every RESET;  *)
(* so the instance costs_changed is called on, on the INCREMENTAL path,  *)
(* is an ADPlanner (the downcast does not yield null).                   *)
C24_InstanceMatchesPlannerType ==
    /\ ivPlannerType \in PlannerTypes
    /\ plannerKind = ivPlannerType
    /\ \A i \in DOMAIN last.notified : last.notified[i].on = "ADPlanner"
    /\ last.update = "INCREMENTAL" => plannerKind = "ADPlanner"

(* an INCREMENTAL update served by an ADPlanner *)
C24_Witness ==
    /\ last.op = "setMap" /\ last.update = "INCREMENTAL"
    /\ ivPlannerType = "ADPlanner" /\ plannerKind = "ADPlanner"
    /\ Len(last.notified) = 1 /\ last.notified[1].on = "ADPlanner"

(* C25: in the change-detection loop every read of the mask is within  *)
(* the mask, whatever the map's size: the loop reads no element whose   *)
(* first index is not below the number of rows or whose second index is *)
(* not below the number of columns.                                     *)
C25_MaskReadsInBounds ==
    [][(UpdateStep /\ ivPlannerType = "ADPlanner"
            /\ SameGrid(ivMapPtr, ivMapPtr'))
        => OutOfMask(ivMapPtr') = {}]_vars

C26_Step ==
    /\ ivStartPoseSetUp => ivStartPoseSetUp'
    /\ ivGoalPoseSetUp => ivGoalPoseSetUp'
    /\ <<ivGoalFootLeft, ivGoalFootRight>>' # <<ivGoalFootLeft, ivGoalFootRight>>
           => /\ last'.op \in {"setGoal", "goalPoseCallback", "planPoses"}
              /\ ivMapPtr # NoMap
              /\ ~PoseOccupied(ivMapPtr, last'.goal_arg)
              /\ ivGoalFootLeft' = getFootPosition(last'.goal_arg, "LEFT")
              /\ ivGoalFootRight' = getFootPosition(last'.goal_arg, "RIGHT")
              /\ ivGoalPoseSetUp'
    /\ <<ivStartFootLeft, ivStartFootRight>>'
           # <<ivStartFootLeft, ivStartFootRight>>
           => /\ last'.op \in {"setStart", "setStartFeet", "startPoseCallback",
                               "planPoses"}
              /\ ivMapPtr # NoMap => ~PoseOccupied(ivMapPtr, last'.start_arg)
              /\ ivStartFootLeft' = getFootPosition(last'.start_arg, "LEFT")
              /\ ivStartFootRight' = getFootPosition(last'.start_arg, "RIGHT")
              /\ ivStartPoseSetUp'
    /\ (last'.op \in {"plan", "replan", "setMap"})
           => (UNCHANGED GoalFields /\ UNCHANGED StartFields)
    /\ (last'.op = "replan" /\ last'.runs = 1)
           => /\ ivGoalFootLeft \in Range(envTable')
              /\ ivGoalFootRight \in Range(envTable')
              /\ ivStartFootLeft \in Range(envTable')
              /\ ivStartFootRight \in Range(envTable')

(* C26: once a start (a goal) pose has been accepted its flag stays true *)
(* in every later state, across rejected setStart and setGoal calls,     *)
(* plan(), resets and map updates, and the stored feet are those of the  *)
(* pose accepted last; a replan() after a rejected goal searches towards *)
(* the goal accepted before.                                             *)
C26_AcceptedPosesStay == [][C26_Step]_vars

(* a goal has been rejected and the goal accepted before is still set *)
C26_Witness ==
    /\ last.op = "setGoal" /\ last.ret = "false"
    /\ ivMapPtr # NoMap
    /\ PoseOccupied(ivMapPtr, last.goal_arg)
    /\ ivGoalPoseSetUp
    /\ ivGoalFootLeft # getFootPosition(last.goal_arg, "LEFT")
    /\ ivGoalFootLeft.leg = "LEFT" /\ ivGoalFootRight.leg = "RIGHT"

C27_Step ==
    (last'.op = "planPoses" /\ ivMapPtr # NoMap) =>
        /\ PoseOccupied(ivMapPtr, last'.start_arg)
               => /\ last'.ret = "false"
                  /\ last'.goal_arg = NoPose
                  /\ last'.resets = 0 /\ last'.setups = 0
                  /\ last'.runs = 0 /\ last'.searches = 0
                  /\ UNCHANGED StartFields
                  /\ UNCHANGED GoalFields
        /\ (~PoseOccupied(ivMapPtr, last'.start_arg)
                /\ PoseOccupied(ivMapPtr, last'.goal_arg))
               => /\ last'.ret = "false"
                  /\ last'.resets = 0 /\ last'.setups = 0
                  /\ last'.runs = 0 /\ last'.searches = 0
                  /\ ivStartPoseSetUp'
                  /\ ivStartFootLeft' = getFootPosition(last'.start_arg, "LEFT")
                  /\ ivStartFootRight'
                         = getFootPosition(last'.start_arg, "RIGHT")
                  /\ UNCHANGED GoalFields
                  /\ UNCHANGED <<envTable, plannerKind, ivPlanExists, ivPath,
                                 ivPathCost>>

(* C27: plan(start, goal) sets start and goal one after the other: if   *)
(* the start pose is rejected setGoal is not evaluated and the stored    *)
(* goal stays; if the start pose is accepted and the goal pose rejected  *)
(* the call returns false without a reset and without a search, and the  *)
(* start just accepted is recorded in place of the one before.           *)
C27_PlanPosesNotAtomic == [][C27_Step]_vars

(* the goal was rejected and the start of the same call is stored *)
C27_Witness ==
    /\ last.op = "planPoses" /\ last.ret = "false"
    /\ ivMapPtr # NoMap
    /\ last.goal_arg # NoPose
    /\ PoseOccupied(ivMapPtr, last.goal_arg)
    /\ ~PoseOccupied(ivMapPtr, last.start_arg)
    /\ ivStartPoseSetUp
    /\ ivStartFootLeft = getFootPosition(last.start_arg, "LEFT")
    /\ last.runs = 0

(* every object the integer constructor can build for one hash size *)
PSObjects(mhs) ==
    { PlanningStateFromInts(x, y, theta, leg, mhs, i) :
        x \in PSCells, y \in PSCells, theta \in PSThetaArgs, leg \in PSLegs,
        i \in UninitInts }

C28_Relation ==
    (ps1 # NoPS /\ ps2 # NoPS /\ ps1.max_hash_size = ps2.max_hash_size) =>
        /\ PSEquals(ps1, ps1) /\ PSEquals(ps2, ps2)
        /\ PSEquals(ps1, ps2) <=> PSEquals(ps2, ps1)
        /\ \A t \in PSObjects(ps1.max_hash_size) :
               (PSEquals(ps1, ps2) /\ PSEquals(ps2, t)) => PSEquals(ps1, t)
        /\ \A i \in UninitInts :
               /\ PSEquals([ps1 EXCEPT !.id = i], ps2) <=> PSEquals(ps1, ps2)
               /\ PSEquals(ps1, [ps1 EXCEPT !.id = i])
        /\ psCmp.done => (psCmp.eq <=> PSEquals(ps2, ps1))

C28_CopyStep ==
    /\ (psMade.first.ctor = "none" /\ psMade'.first.ctor = "copy")
           => /\ PSEquals(ps1', ps2') /\ PSEquals(ps2', ps1')
              /\ ps1'.id = ps2'.id /\ ps1'.hashTag = ps2'.hashTag
    /\ (psMade.second.ctor = "none" /\ psMade'.second.ctor = "copy")
           => /\ PSEquals(ps2', ps1') /\ PSEquals(ps1', ps2')
              /\ ps2'.id = ps1'.id /\ ps2'.hashTag = ps1'.hashTag

(* C28: among PlanningStates of one maxHashSize operator== is reflexive, *)
(* symmetric and transitive and looks at x, y, theta and leg only: two   *)
(* states differing in nothing but the id compare equal; a copy compares *)
(* equal to its original and has the original's id and hash tag.         *)
C28_EqualityIsEquivalence == []C28_Relation /\ [][C28_CopyStep]_vars

(* two separately built states with different ids have compared equal *)
C28_Witness ==
    /\ psCmp.done /\ psCmp.eq
    /\ ps1.max_hash_size = ps2.max_hash_size
    /\ ps1.id # ps2.id
    /\ psMade.first.ctor # "copy" /\ psMade.second.ctor # "copy"

(* C29: the assertion in the PlanningState constructor taking continuous *)
(* coordinates never fails: no construction from doubles stops the        *)
(* process.                                                               *)
C29_DoubleCtorAssertionHolds ==
    psMade.first.ctor # "aborted" /\ psMade.second.ctor # "aborted"

====
